---- MODULE Spec2Model ----
(***************************************************************************)
(* A model of the vlan crate (src/src/lib.rs): the three VLAN identifier   *)
(* value types NativeVlanId, VlanId and MaybeVlanId, their validating      *)
(* constructors, the raw-value accessor AsRawVlanId with its big-endian    *)
(* encoding, the comparison impls built on it, and the serde glue.         *)
(*                                                                         *)
(* Two specifications share the variables:                                 *)
(*   Spec     one value at a time: any public constructor applied to any   *)
(*            16-bit input, then the unary operations on the value;        *)
(*   SpecCmp  two values, x built from any 16-bit input and y from a       *)
(*            sample of raw inputs or from x, then ==, partial_cmp, cmp.   *)
(***************************************************************************)
EXTENDS Integers, Sequences, FiniteSets, TLC

VARIABLES
    op,         \* name of the last operation performed
    arg,        \* the u16 handed to the last constructor, or NoArg
    res,        \* the Result the last fallible constructor returned, or NoResult
    val,        \* the value currently held (Spec), or NoValue
    out,        \* what the last accessor / comparison returned, or NoOutput
    unchecked,  \* arguments the last operation passed to VlanId::new_unchecked
    x, y        \* the two values compared in SpecCmp

vars == <<op, arg, res, val, out, unchecked, x, y>>

----------------------------------------------------------------------------
(* RawVlanId = u16 *)

U16_MAX == 65535

RawVlanId == 0..U16_MAX

U8_MAX == 255

\* no u16 was handed over: a number outside u16
NoArg == U16_MAX + 1
NoResult == [none |-> TRUE]
NoValue == [type |-> "none"]
NoOutput == [kind |-> "none"]

----------------------------------------------------------------------------
(* Result<T, InvalidVlanId> *)

Ok(v) == [ok |-> TRUE, val |-> v]

InvalidVlanId == [ok |-> FALSE, err |-> "InvalidVlanId"]

IsOk(r) == r # NoResult /\ r.ok

IsErr(r) == r # NoResult /\ ~r.ok

----------------------------------------------------------------------------
(* NativeVlanId: a unit struct, no data *)

NativeVlanId == [type |-> "NativeVlanId"]

NativeVlanId_VALUE == 0

NativeVlanId_as_raw_vlan_id(self) == NativeVlanId_VALUE

NativeVlanId_into_u16(self) == NativeVlanId_VALUE

\* the test inverted
NativeVlanId_try_from_inverted(value) ==
    IF value # NativeVlanId_VALUE THEN Ok(NativeVlanId) ELSE InvalidVlanId

NativeVlanId_try_from(value) ==
    IF value = NativeVlanId_VALUE THEN Ok(NativeVlanId) ELSE InvalidVlanId

----------------------------------------------------------------------------
(* VlanId { inner: NonZero<u16> } *)

MIN_VALUE == 1
MAX_VALUE == 4094

\* Self { inner: NonZero::new_unchecked(value) }: the bits are stored as given.
\* The caller's obligation (value in MIN_VALUE..MAX_VALUE, and nonzero for
\* NonZero) is not checked here; every call is recorded in `unchecked`.
VlanId_new_unchecked(value) == [type |-> "VlanId", inner |-> value]

\* the upper bound excluded: vlan >= MAX_VALUE
VlanId_try_new_exclusive(vlan) ==
    IF vlan < MIN_VALUE \/ vlan >= MAX_VALUE
    THEN InvalidVlanId
    ELSE Ok([type |-> "VlanId", inner |-> vlan])

VlanId_try_new(vlan) ==
    IF vlan < MIN_VALUE \/ vlan > MAX_VALUE
    THEN InvalidVlanId
    ELSE Ok([type |-> "VlanId", inner |-> vlan])

VlanId_try_from(value) == VlanId_try_new(value)

VlanId_MIN == VlanId_new_unchecked(MIN_VALUE)
VlanId_MAX == VlanId_new_unchecked(MAX_VALUE)
VlanId_ONE == VlanId_MIN

VlanId_as_u16(self) == self.inner

VlanId_into_u16(self) == self.inner

VlanId_as_raw_vlan_id(self) == self.inner

----------------------------------------------------------------------------
(* enum MaybeVlanId { Native(NativeVlanId), Tagged(VlanId) } *)

Native(n) == [type |-> "MaybeVlanId", variant |-> "Native", field |-> n]

Tagged(v) == [type |-> "MaybeVlanId", variant |-> "Tagged", field |-> v]

OCTET_SIZE == 2
EFFECTIVE_BITS == 12

MaybeVlanId_NATIVE == Native(NativeVlanId)
MIN_TAGGED_VLAN == Tagged(VlanId_MIN)
MAX_TAGGED_VLAN == Tagged(VlanId_MAX)

MaybeVlanId_tagged(vlan) == Tagged(vlan)

MaybeVlanId_as_u16(self) ==
    IF self.variant = "Tagged" THEN VlanId_as_u16(self.field) ELSE 0

\* the range arm one too long: MIN_VALUE..=4095
MaybeVlanId_try_new_reserved(vlan) ==
    CASE vlan = 0 ->
            [ret |-> Ok(Native(NativeVlanId)), calls |-> <<>>]
      [] vlan \in MIN_VALUE..(MAX_VALUE + 1) ->
            [ret |-> Ok(Tagged(VlanId_new_unchecked(vlan))), calls |-> <<vlan>>]
      [] OTHER ->
            [ret |-> InvalidVlanId, calls |-> <<>>]

\* the arm for 0 missing: 0..=MAX_VALUE goes to the unchecked constructor
MaybeVlanId_try_new_no_native(vlan) ==
    CASE vlan \in 0..MAX_VALUE ->
            [ret |-> Ok(Tagged(VlanId_new_unchecked(vlan))), calls |-> <<vlan>>]
      [] OTHER ->
            [ret |-> InvalidVlanId, calls |-> <<>>]

\* The match of try_new, with the calls it makes to VlanId::new_unchecked:
\* ret is the value returned, calls the arguments of those calls in order.
MaybeVlanId_try_new_traced(vlan) ==
    CASE vlan = 0 ->
            [ret |-> Ok(MaybeVlanId_NATIVE), calls |-> <<>>]
      [] vlan \in MIN_VALUE..MAX_VALUE ->
            [ret |-> Ok(Tagged(VlanId_new_unchecked(vlan))), calls |-> <<vlan>>]
      [] OTHER ->
            [ret |-> InvalidVlanId, calls |-> <<>>]

MaybeVlanId_try_new(vlan) == MaybeVlanId_try_new_traced(vlan).ret

MaybeVlanId_try_from(value) == MaybeVlanId_try_new(value)

MaybeVlanId_into_u16(self) == MaybeVlanId_as_u16(self)

\* the Tagged arm falling through to 0
MaybeVlanId_as_raw_vlan_id_zero(self) == 0

MaybeVlanId_as_raw_vlan_id(self) ==
    CASE self.variant = "Native" -> 0
      [] self.variant = "Tagged" -> VlanId_as_raw_vlan_id(self.field)

----------------------------------------------------------------------------
(* trait AsRawVlanId, dispatched on the implementing type *)

as_raw_vlan_id(self) ==
    CASE self.type = "NativeVlanId" -> NativeVlanId_as_raw_vlan_id(self)
      [] self.type = "VlanId"       -> VlanId_as_raw_vlan_id(self)
      [] self.type = "MaybeVlanId"  -> MaybeVlanId_as_raw_vlan_id(self)

\* u16::to_le_bytes in its place
u16_to_le_bytes(n) == <<n % (U8_MAX + 1), (n \div (U8_MAX + 1)) % (U8_MAX + 1)>>

\* u16::to_be_bytes: most significant octet first
u16_to_be_bytes(n) == <<(n \div (U8_MAX + 1)) % (U8_MAX + 1), n % (U8_MAX + 1)>>

as_be_bytes(self) == u16_to_be_bytes(as_raw_vlan_id(self))

\* From<T> for u16, dispatched on T
into_u16(self) ==
    CASE self.type = "NativeVlanId" -> NativeVlanId_into_u16(self)
      [] self.type = "VlanId"       -> VlanId_into_u16(self)
      [] self.type = "MaybeVlanId"  -> MaybeVlanId_into_u16(self)

----------------------------------------------------------------------------
(* PartialEq<Rhs>, PartialOrd<Rhs> for Rhs: AsRawVlanId, and Ord *)

\* u16's Ord::cmp
u16_cmp(a, b) == IF a < b THEN "Less" ELSE IF a = b THEN "Equal" ELSE "Greater"

Some(o) == [some |-> TRUE, ord |-> o]

NativeVlanId_eq(self, other) ==
    NativeVlanId_as_raw_vlan_id(self) = as_raw_vlan_id(other)

VlanId_eq(self, other) ==
    VlanId_as_raw_vlan_id(self) = as_raw_vlan_id(other)

\* a derived, structural PartialEq
MaybeVlanId_eq_derived(self, other) == self = other

MaybeVlanId_eq(self, other) ==
    MaybeVlanId_as_raw_vlan_id(self) = as_raw_vlan_id(other)

NativeVlanId_partial_cmp(self, other) ==
    Some(u16_cmp(NativeVlanId_as_raw_vlan_id(self), as_raw_vlan_id(other)))

VlanId_partial_cmp(self, other) ==
    Some(u16_cmp(VlanId_as_raw_vlan_id(self), as_raw_vlan_id(other)))

\* the operands swapped
MaybeVlanId_partial_cmp_swapped(self, other) ==
    Some(u16_cmp(as_raw_vlan_id(other), MaybeVlanId_as_raw_vlan_id(self)))

MaybeVlanId_partial_cmp(self, other) ==
    Some(u16_cmp(MaybeVlanId_as_raw_vlan_id(self), as_raw_vlan_id(other)))

VlanId_cmp(self, other) ==
    u16_cmp(VlanId_as_raw_vlan_id(self), VlanId_as_raw_vlan_id(other))

MaybeVlanId_cmp(self, other) ==
    u16_cmp(MaybeVlanId_as_raw_vlan_id(self), MaybeVlanId_as_raw_vlan_id(other))

\* a == b, a.partial_cmp(&b), a.cmp(&b): the impl of the left operand's type
eq(a, b) ==
    CASE a.type = "NativeVlanId" -> NativeVlanId_eq(a, b)
      [] a.type = "VlanId"       -> VlanId_eq(a, b)
      [] a.type = "MaybeVlanId"  -> MaybeVlanId_eq(a, b)

partial_cmp(a, b) ==
    CASE a.type = "NativeVlanId" -> NativeVlanId_partial_cmp(a, b)
      [] a.type = "VlanId"       -> VlanId_partial_cmp(a, b)
      [] a.type = "MaybeVlanId"  -> MaybeVlanId_partial_cmp(a, b)

cmp(a, b) ==
    CASE a.type = "VlanId"      -> VlanId_cmp(a, b)
      [] a.type = "MaybeVlanId" -> MaybeVlanId_cmp(a, b)

----------------------------------------------------------------------------
(* mod serialization (feature "serde") *)

\* Serialize::serialize: serializer.serialize_u16(self.as_u16())
VlanId_serialize(self) == [kind |-> "serialize_u16", n |-> VlanId_as_u16(self)]

MaybeVlanId_serialize(self) ==
    [kind |-> "serialize_u16", n |-> MaybeVlanId_as_u16(self)]

\* de::Error::custom(e) of an InvalidVlanId, and the error of every Visitor
\* method the visitors leave at serde's default
DeCustomError == [ok |-> FALSE, err |-> "custom(INVALID_VLAN_ID)"]

DeInvalidType == [ok |-> FALSE, err |-> "invalid_type"]

MapErrCustom(r) == IF IsOk(r) THEN r ELSE DeCustomError

\* The Visitor method a Deserializer may invoke when Deserialize::deserialize
\* asks it for deserialize_str while the input holds a 16-bit integer: the
\* request is a hint, so the data format decides. "visit_u16" and "visit_u64"
\* are formats that hand over the integer they find, "visit_str" formats that
\* read the input as a string, "none" formats that report the mismatch
\* without calling the visitor.
DeserializeStrCalls == {"visit_u16", "visit_u64", "visit_str", "none"}

\* VlanIdVisitor: only visit_u16 is implemented
VlanIdVisitor_visit(method, v) ==
    IF method = "visit_u16"
    THEN [ret |-> MapErrCustom(VlanId_try_from(v)), calls |-> <<>>]
    ELSE [ret |-> DeInvalidType, calls |-> <<>>]

\* MaybeVlanIdVisitor: only visit_u16 is implemented
MaybeVlanIdVisitor_visit(method, v) ==
    IF method = "visit_u16"
    THEN [ret |-> MapErrCustom(MaybeVlanId_try_from(v)),
          calls |-> MaybeVlanId_try_new_traced(v).calls]
    ELSE [ret |-> DeInvalidType, calls |-> <<>>]

----------------------------------------------------------------------------
(* The public constants, with the calls to VlanId::new_unchecked that      *)
(* their initialisers make.                                                *)

ConstNames ==
    {"VlanId::MIN", "VlanId::MAX", "VlanId::ONE", "NativeVlanId",
     "MaybeVlanId::NATIVE", "MaybeVlanId::MIN_TAGGED_VLAN",
     "MaybeVlanId::MAX_TAGGED_VLAN"}

ConstValue(name) ==
    CASE name = "VlanId::MIN" -> [ret |-> VlanId_MIN, calls |-> <<MIN_VALUE>>]
      [] name = "VlanId::MAX" -> [ret |-> VlanId_MAX, calls |-> <<MAX_VALUE>>]
      [] name = "VlanId::ONE" -> [ret |-> VlanId_ONE, calls |-> <<MIN_VALUE>>]
      [] name = "NativeVlanId" -> [ret |-> NativeVlanId, calls |-> <<>>]
      [] name = "MaybeVlanId::NATIVE" ->
            [ret |-> MaybeVlanId_NATIVE, calls |-> <<>>]
      [] name = "MaybeVlanId::MIN_TAGGED_VLAN" ->
            [ret |-> MIN_TAGGED_VLAN, calls |-> <<MIN_VALUE>>]
      [] name = "MaybeVlanId::MAX_TAGGED_VLAN" ->
            [ret |-> MAX_TAGGED_VLAN, calls |-> <<MAX_VALUE>>]

\* The fallible constructors from u16, by name; ret and calls as above.
CtorNames ==
    {"VlanId::try_new", "VlanId::try_from", "MaybeVlanId::try_new",
     "MaybeVlanId::try_from", "NativeVlanId::try_from"}

Construct(name, v) ==
    CASE name = "VlanId::try_new" -> [ret |-> VlanId_try_new(v), calls |-> <<>>]
      [] name = "VlanId::try_from" -> [ret |-> VlanId_try_from(v), calls |-> <<>>]
      [] name = "MaybeVlanId::try_new" -> MaybeVlanId_try_new_traced(v)
      [] name = "MaybeVlanId::try_from" ->
            [ret |-> MaybeVlanId_try_from(v),
             calls |-> MaybeVlanId_try_new_traced(v).calls]
      [] name = "NativeVlanId::try_from" ->
            [ret |-> NativeVlanId_try_from(v), calls |-> <<>>]

Unwrap(r) == IF IsOk(r) THEN r.val ELSE NoValue

----------------------------------------------------------------------------
(* Spec: one value at a time *)

Init ==
    /\ op = "init"
    /\ arg = NoArg
    /\ res = NoResult
    /\ val = NoValue
    /\ out = NoOutput
    /\ unchecked = <<>>
    /\ x = NoValue
    /\ y = NoValue

Fresh == op = "init"

Returned(name, v, r) ==
    /\ op' = name
    /\ arg' = v
    /\ res' = r.ret
    /\ val' = Unwrap(r.ret)
    /\ out' = NoOutput
    /\ unchecked' = r.calls
    /\ UNCHANGED <<x, y>>

VlanIdTryNew ==
    /\ Fresh
    /\ \E v \in RawVlanId :
        Returned("VlanId::try_new", v, Construct("VlanId::try_new", v))

VlanIdTryFrom ==
    /\ Fresh
    /\ \E v \in RawVlanId :
        Returned("VlanId::try_from", v, Construct("VlanId::try_from", v))

MaybeVlanIdTryNew ==
    /\ Fresh
    /\ \E v \in RawVlanId :
        Returned("MaybeVlanId::try_new", v, Construct("MaybeVlanId::try_new", v))

MaybeVlanIdTryFrom ==
    /\ Fresh
    /\ \E v \in RawVlanId :
        Returned("MaybeVlanId::try_from", v, Construct("MaybeVlanId::try_from", v))

NativeVlanIdTryFrom ==
    /\ Fresh
    /\ \E v \in RawVlanId :
        Returned("NativeVlanId::try_from", v, Construct("NativeVlanId::try_from", v))

UseConst ==
    /\ Fresh
    /\ \E name \in ConstNames :
        /\ op' = name
        /\ val' = ConstValue(name).ret
        /\ unchecked' = ConstValue(name).calls
        /\ UNCHANGED <<arg, res, out, x, y>>

\* MaybeVlanId::tagged(vlan) on the VlanId held
MaybeVlanIdTagged ==
    /\ val.type = "VlanId"
    /\ op' = "MaybeVlanId::tagged"
    /\ val' = MaybeVlanId_tagged(val)
    /\ res' = NoResult
    /\ out' = NoOutput
    /\ unchecked' = <<>>
    /\ UNCHANGED <<arg, x, y>>

Accessed(name, o) ==
    /\ op' = name
    /\ out' = o
    /\ unchecked' = <<>>
    /\ UNCHANGED <<arg, res, val, x, y>>

AsRawVlanId ==
    /\ val # NoValue
    /\ Accessed("as_raw_vlan_id", [kind |-> "u16", n |-> as_raw_vlan_id(val)])

IntoU16 ==
    /\ val # NoValue
    /\ Accessed("into_u16", [kind |-> "u16", n |-> into_u16(val)])

AsBeBytes ==
    /\ val # NoValue
    /\ Accessed("as_be_bytes", [kind |-> "bytes", b |-> as_be_bytes(val)])

\* T::try_new(x.as_raw_vlan_id()) for the value x held, T its type
Reconstruct ==
    /\ val.type \in {"VlanId", "MaybeVlanId"}
    /\ LET raw == as_raw_vlan_id(val)
           r == Construct(IF val.type = "VlanId" THEN "VlanId::try_new"
                          ELSE "MaybeVlanId::try_new", raw)
       IN  /\ op' = "reconstruct"
           /\ arg' = raw
           /\ res' = r.ret
           /\ out' = NoOutput
           /\ unchecked' = r.calls
           /\ UNCHANGED <<val, x, y>>

Serialize ==
    /\ val.type \in {"VlanId", "MaybeVlanId"}
    /\ Accessed("serialize",
                IF val.type = "VlanId" THEN VlanId_serialize(val)
                ELSE MaybeVlanId_serialize(val))

\* The integers a deserialization may now read: any 16-bit integer when
\* nothing is held, or the integer just serialized from a value of type T.
Readable(T) ==
    IF Fresh THEN RawVlanId
    ELSE IF out.kind = "serialize_u16" /\ val.type = T THEN {out.n}
    ELSE {}

Deserialized(name, v, r) ==
    /\ op' = name
    /\ arg' = v
    /\ res' = r.ret
    /\ val' = IF Fresh THEN Unwrap(r.ret) ELSE val
    /\ out' = NoOutput
    /\ unchecked' = r.calls
    /\ UNCHANGED <<x, y>>

VlanIdDeserialize ==
    \E v \in Readable("VlanId"), m \in DeserializeStrCalls :
        Deserialized("VlanId::deserialize", v, VlanIdVisitor_visit(m, v))

MaybeVlanIdDeserialize ==
    \E v \in Readable("MaybeVlanId"), m \in DeserializeStrCalls :
        Deserialized("MaybeVlanId::deserialize", v, MaybeVlanIdVisitor_visit(m, v))

Drop ==
    /\ ~Fresh
    /\ op' = "init"
    /\ arg' = NoArg
    /\ res' = NoResult
    /\ val' = NoValue
    /\ out' = NoOutput
    /\ unchecked' = <<>>
    /\ UNCHANGED <<x, y>>

Next ==
    \/ VlanIdTryNew
    \/ VlanIdTryFrom
    \/ MaybeVlanIdTryNew
    \/ MaybeVlanIdTryFrom
    \/ NativeVlanIdTryFrom
    \/ UseConst
    \/ MaybeVlanIdTagged
    \/ AsRawVlanId
    \/ IntoU16
    \/ AsBeBytes
    \/ Reconstruct
    \/ Serialize
    \/ VlanIdDeserialize
    \/ MaybeVlanIdDeserialize
    \/ Drop

Spec == Init /\ [][Next]_vars

----------------------------------------------------------------------------
(* SpecCmp: two values and their comparisons. x is built by any public     *)
(* constructor from any 16-bit input; y from a sample of raw inputs, or    *)
(* from x (a copy, or MaybeVlanId::tagged(x)).                             *)

Spread == 1

\* The raw inputs tried for y: around 0, around MAX_VALUE, the value of the
\* crate's layout test, and u16::MAX.
Samples ==
    (0..Spread)
        \cup ((MAX_VALUE - Spread)..(MAX_VALUE + Spread))
        \cup {3125, U16_MAX}

Bound(reg, name, v, calls) ==
    /\ op' = name
    /\ unchecked' = calls
    /\ out' = NoOutput
    /\ IF reg = "x" THEN x' = v /\ y' = y ELSE x' = x /\ y' = v
    /\ UNCHANGED <<arg, res, val>>

\* let x = T::try_new(v).unwrap() / T::try_from(v).unwrap()
BindX ==
    /\ x = NoValue
    /\ y = NoValue
    /\ \E name \in CtorNames, v \in RawVlanId :
        LET r == Construct(name, v)
        IN  /\ IsOk(r.ret)
            /\ Bound("x", name, r.ret.val, r.calls)

\* let x = one of the public constants
BindXConst ==
    /\ x = NoValue
    /\ y = NoValue
    /\ \E name \in ConstNames :
        Bound("x", name, ConstValue(name).ret, ConstValue(name).calls)

\* let y = T::try_new(v).unwrap() / T::try_from(v).unwrap()
BindY ==
    /\ x # NoValue
    /\ y = NoValue
    /\ \E name \in CtorNames, v \in Samples :
        LET r == Construct(name, v)
        IN  /\ IsOk(r.ret)
            /\ Bound("y", name, r.ret.val, r.calls)

\* let y = one of the public constants
BindYConst ==
    /\ x # NoValue
    /\ y = NoValue
    /\ \E name \in ConstNames :
        Bound("y", name, ConstValue(name).ret, ConstValue(name).calls)

\* let y = x (the types are Copy)
BindYCopy ==
    /\ x # NoValue
    /\ y = NoValue
    /\ Bound("y", "copy", x, <<>>)

\* let y = MaybeVlanId::tagged(x)
BindYTagged ==
    /\ x.type = "VlanId"
    /\ y = NoValue
    /\ Bound("y", "MaybeVlanId::tagged", MaybeVlanId_tagged(x), <<>>)

Compared(name, o) ==
    /\ x # NoValue
    /\ y # NoValue
    /\ op' = name
    /\ out' = o
    /\ unchecked' = <<>>
    /\ UNCHANGED <<arg, res, val, x, y>>

\* x == y and y == x
Eq == Compared("eq", [kind |-> "eq", xy |-> eq(x, y), yx |-> eq(y, x)])

\* x.partial_cmp(&y) and y.partial_cmp(&x)
PartialCmp ==
    Compared("partial_cmp",
             [kind |-> "partial_cmp",
              xy |-> partial_cmp(x, y), yx |-> partial_cmp(y, x)])

\* x.cmp(&y) beside x.partial_cmp(&y): Ord is implemented for VlanId and
\* MaybeVlanId, each against its own type only
Cmp ==
    /\ x.type \in {"VlanId", "MaybeVlanId"}
    /\ y.type = x.type
    /\ Compared("cmp",
                [kind |-> "cmp", xy |-> cmp(x, y), yx |-> cmp(y, x),
                 partial |-> partial_cmp(x, y)])

\* both values go out of scope
Forget ==
    /\ y # NoValue
    /\ op' = "init"
    /\ out' = NoOutput
    /\ unchecked' = <<>>
    /\ x' = NoValue
    /\ y' = NoValue
    /\ UNCHANGED <<arg, res, val>>

NextCmp ==
    \/ BindX
    \/ BindXConst
    \/ BindY
    \/ BindYConst
    \/ BindYCopy
    \/ BindYTagged
    \/ Eq
    \/ PartialCmp
    \/ Cmp
    \/ Forget

SpecCmp == Init /\ [][NextCmp]_vars

----------------------------------------------------------------------------
(* Properties of the constructors and accessors, checked under Spec *)

\* C1: for every 16-bit input v, VlanId::try_new(v) and VlanId::try_from(v)
\* succeed iff 1 <= v <= 4094 and otherwise return Err(InvalidVlanId); a
\* success holds exactly v (no clamping, no substitution); 0, 4095 and 65535
\* fail, 1 and 4094 succeed.
C1_VlanIdTryNewRange ==
    op \in {"VlanId::try_new", "VlanId::try_from"} =>
        /\ IsOk(res) <=> (1 <= arg /\ arg <= 4094)
        /\ IsOk(res) => res.val = [type |-> "VlanId", inner |-> arg]
        /\ ~IsOk(res) => res = InvalidVlanId
        /\ arg \in {0, 4095, 65535} => IsErr(res)
        /\ arg \in {1, 4094} => IsOk(res)

C1_Witness ==
    /\ op = "VlanId::try_from"
    /\ arg = 4094
    /\ res = Ok([type |-> "VlanId", inner |-> 4094])

\* C2: for every 16-bit input v, MaybeVlanId::try_new(v) and
\* MaybeVlanId::try_from(v) give Ok(Native) for v = 0, Ok(Tagged) holding
\* exactly v for 1 <= v <= 4094, and Err(InvalidVlanId) for 4095 <= v <= 65535;
\* try_new(0) = Ok(NATIVE), try_new(1) = Ok(MIN_TAGGED_VLAN),
\* try_new(4094) = Ok(MAX_TAGGED_VLAN).
C2_MaybeVlanIdTryNewClassifies ==
    op \in {"MaybeVlanId::try_new", "MaybeVlanId::try_from"} =>
        /\ arg = 0 => res = Ok(Native(NativeVlanId))
        /\ (1 <= arg /\ arg <= 4094) =>
              res = Ok(Tagged([type |-> "VlanId", inner |-> arg]))
        /\ (4095 <= arg /\ arg <= 65535) => res = InvalidVlanId
        /\ arg = 0 => res = Ok(MaybeVlanId_NATIVE)
        /\ arg = 1 => res = Ok(MIN_TAGGED_VLAN)
        /\ arg = 4094 => res = Ok(MAX_TAGGED_VLAN)

C2_Witness ==
    /\ op = "MaybeVlanId::try_new"
    /\ arg = 4095
    /\ res = InvalidVlanId

\* C3: round trip. as_raw_vlan_id of the value VlanId::try_new(v) or
\* MaybeVlanId::try_new(u) returned is v (resp. u); and for every value x
\* held, however it was obtained, try_new(x.as_raw_vlan_id()) is Ok of the
\* same variant holding the same value as x.
C3_RoundTrip ==
    /\ (/\ op = "as_raw_vlan_id"
        /\ val.type \in {"VlanId", "MaybeVlanId"}
        /\ res = Ok(val)) => out.n = arg
    /\ op = "reconstruct" => res = Ok(val)

C3_Witness ==
    /\ op = "reconstruct"
    /\ val = Tagged([type |-> "VlanId", inner |-> 3125])
    /\ arg = 3125
    /\ res = Ok(val)

IsValidVlanId(v) ==
    /\ v.type = "VlanId"
    /\ v.inner # 0
    /\ 1 <= v.inner /\ v.inner <= 4094

IsValidValue(v) ==
    CASE v.type = "NativeVlanId" -> TRUE
      [] v.type = "VlanId" -> IsValidVlanId(v)
      [] v.type = "MaybeVlanId" ->
            /\ \/ v.variant = "Native" /\ v.field = NativeVlanId
               \/ v.variant = "Tagged" /\ IsValidVlanId(v.field)
            /\ as_raw_vlan_id(v) \in 0..4094
      [] OTHER -> v = NoValue

\* C4: after any sequence of public constructions every VlanId holds a value
\* in 1..4094, every MaybeVlanId has a raw value in 0..4094 and is never
\* Tagged with payload 0, and VlanId::new_unchecked is only ever called with
\* a value in 1..4094.
C4_ValuesStayValid ==
    /\ IsValidValue(val)
    /\ IsOk(res) => IsValidValue(res.val)
    /\ IsValidValue(x)
    /\ IsValidValue(y)
    /\ \A i \in 1..Len(unchecked) : 1 <= unchecked[i] /\ unchecked[i] <= 4094

C4_Witness ==
    /\ op = "MaybeVlanId::try_from"
    /\ unchecked = <<4094>>
    /\ val = Tagged([type |-> "VlanId", inner |-> 4094])

\* C7: as_be_bytes of any value is the 2-byte big-endian encoding of its raw
\* value: hi = raw / 256, lo = raw % 256, hi <= 0x0F; VlanId 4094 encodes as
\* [0x0F, 0xFE], NativeVlanId as [0, 0], MaybeVlanId::try_new(1) as [0, 1].
C7_BigEndianBytes ==
    op = "as_be_bytes" =>
        LET b == out.b
            raw == as_raw_vlan_id(val)
        IN  /\ Len(b) = OCTET_SIZE
            /\ b[1] \in 0..255 /\ b[2] \in 0..255
            /\ b[1] = raw \div 256
            /\ b[2] = raw % 256
            /\ b[1] * 256 + b[2] = raw
            /\ b[1] <= 15
            /\ b[1] < 2 ^ (EFFECTIVE_BITS - 8)
            /\ val = [type |-> "VlanId", inner |-> 4094] => b = <<15, 254>>
            /\ val = NativeVlanId => b = <<0, 0>>
            /\ (res = Ok(val) /\ val.type = "MaybeVlanId" /\ arg = 1) =>
                  b = <<0, 1>>

C7_Witness ==
    /\ op = "as_be_bytes"
    /\ val = [type |-> "VlanId", inner |-> 4094]
    /\ out.b = <<15, 254>>

\* C8: deserializing the 16-bit integer v into VlanId (resp. MaybeVlanId)
\* succeeds iff VlanId::try_new(v) (resp. MaybeVlanId::try_new(v)) succeeds,
\* with the same value, so that serialize-then-deserialize reproduces every
\* valid value.
C8_DeserializeMatchesTryNew ==
    /\ op = "VlanId::deserialize" =>
          /\ IsOk(res) <=> IsOk(VlanId_try_new(arg))
          /\ IsOk(res) => res = VlanId_try_new(arg)
    /\ op = "MaybeVlanId::deserialize" =>
          /\ IsOk(res) <=> IsOk(MaybeVlanId_try_new(arg))
          /\ IsOk(res) => res = MaybeVlanId_try_new(arg)

\* C9: NativeVlanId::try_from(v) succeeds iff v = 0 and returns
\* Err(InvalidVlanId) for every v in 1..65535; every NativeVlanId has raw
\* value 0, from as_raw_vlan_id and from the conversion into u16 alike.
C9_NativeVlanIdIsZero ==
    /\ op = "NativeVlanId::try_from" =>
          /\ IsOk(res) <=> arg = 0
          /\ IsOk(res) => res = Ok([type |-> "NativeVlanId"])
          /\ (1 <= arg /\ arg <= 65535) => res = InvalidVlanId
    /\ (op \in {"as_raw_vlan_id", "into_u16"} /\ val.type = "NativeVlanId") =>
          out.n = 0

C9_Witness ==
    /\ op = "into_u16"
    /\ arg = 0
    /\ res = Ok(NativeVlanId)
    /\ val = NativeVlanId
    /\ out.n = 0

----------------------------------------------------------------------------
(* Properties of the comparisons, checked under SpecCmp *)

\* C5: cross-type equality is decided by the raw value alone: a == b iff
\* a.as_raw_vlan_id() = b.as_raw_vlan_id(), for a and b of any of the three
\* types; so == is symmetric, MaybeVlanId::NATIVE == NativeVlanId,
\* MaybeVlanId::Tagged(v) == v, and a Tagged value never equals Native.
C5_EqByRawValue ==
    op = "eq" =>
        /\ out.xy <=> (as_raw_vlan_id(x) = as_raw_vlan_id(y))
        /\ out.xy <=> out.yx
        /\ (x = Native(NativeVlanId) /\ y = NativeVlanId) => out.xy
        /\ (x.type = "MaybeVlanId" /\ x.variant = "Tagged" /\ y = x.field) =>
              out.xy
        /\ (y.type = "MaybeVlanId" /\ y.variant = "Tagged" /\ x = y.field) =>
              out.yx
        /\ (/\ x.type = "MaybeVlanId" /\ x.variant = "Tagged"
            /\ y \in {NativeVlanId, Native(NativeVlanId)}) => ~out.xy

C5_Witness ==
    /\ op = "eq"
    /\ x = [type |-> "VlanId", inner |-> 2000]
    /\ y = Tagged([type |-> "VlanId", inner |-> 2000])
    /\ out.xy
    /\ out.yx

\* C6: partial_cmp between values of any two of the three types is never
\* None and is the ordering of the raw values (raw a < raw b gives Less, and
\* Greater the other way round); Ord::cmp on VlanId and on MaybeVlanId is
\* that ordering too and agrees with partial_cmp.
C6_OrderByRawValue ==
    LET a == as_raw_vlan_id(x)
        b == as_raw_vlan_id(y)
    IN  /\ op = "partial_cmp" =>
              /\ out.xy.some /\ out.yx.some
              /\ out.xy.ord = "Less" <=> a < b
              /\ out.xy.ord = "Equal" <=> a = b
              /\ out.xy.ord = "Greater" <=> a > b
              /\ a < b => out.yx.ord = "Greater"
        /\ op = "cmp" =>
              /\ out.xy = "Less" <=> a < b
              /\ out.xy = "Equal" <=> a = b
              /\ out.xy = "Greater" <=> a > b
              /\ out.partial = [some |-> TRUE, ord |-> out.xy]

C6_Witness ==
    /\ op = "partial_cmp"
    /\ x = NativeVlanId
    /\ y = Tagged([type |-> "VlanId", inner |-> 4094])
    /\ out.xy = [some |-> TRUE, ord |-> "Less"]
    /\ out.yx = [some |-> TRUE, ord |-> "Greater"]

====
